---------------------------- MODULE Spec2Model ----------------------------
(***************************************************************************)
(* EnergyTrack front end (src/frontend/app.js): the entry-centric time     *)
(* axis (allocateGapSpace, buildAnchorMap, timeToY_entryCentric,           *)
(* yToTime_entryCentric) and the draft/backdating state machine built on   *)
(* it (input, energy, scroll, save, discard, clock).                       *)
(*                                                                         *)
(* Numbers.  JavaScript numbers are IEEE-754 doubles, and so are the       *)
(* model's: a number is [nan, neg, w, f]: NaN or not, the sign, the        *)
(* integer part of the magnitude and its binary fraction in limbs of 15    *)
(* bits (f[i] counts 2^(-15 i); no zero limb at the end, so equal values   *)
(* are equal records), and every operator returns the exact result rounded *)
(* to 53 significant bits, ties to even, or NaN when an operand is NaN.    *)
(* The magnitudes met here stay below 2^31 and far above the subnormal     *)
(* range.                                                                  *)
(*                                                                         *)
(* Time.  Instants are milliseconds since 1970, as in the code; the page   *)
(* is loaded 14 hours after the epoch, which keeps every instant within    *)
(* TLC's integers.  An entry's timestamp is a string, kept as its digits   *)
(* and its zone suffix; parseTimestamp reads it as the code does, and a    *)
(* string it cannot read gives NaN, which nothing keeps out of the anchor  *)
(* map.                                                                    *)
(***************************************************************************)
EXTENDS Integers, Sequences, FiniteSets, TLC

VARIABLES
    clock,           \* Date.now(): the wall clock, in ms
    pc,              \* "loading" until init()'s fetchEntries has settled, then "ready"
    entries,         \* state.entries
    draft,           \* state.draft: [text, energy, timestamp]
    isDraftMode,     \* state.isDraftMode
    currentAnchors,  \* the global currentAnchors
    pending,         \* createEntry requests in flight (the awaits of saveEntry)
    last,            \* history, read only by properties: the boundary outcome, reset,
                     \* save or scroll handler that ran last ("other" after any other)
    mEntries,        \* axis functions alone: the entry list given to buildAnchorMap
    mNow,            \*   the now given to buildAnchorMap
    mAnchors,        \*   the anchor map it returned
    mT,              \*   the timestamp given to timeToY_entryCentric
    mPos,            \*   a position: timeToY's result, or the y given to yToTime
    mTime,           \*   the time yToTime_entryCentric returned
    mT2,             \*   a second timestamp given to timeToY_entryCentric
    mPos2,           \*   timeToY's result for it
    mStage,          \*   which of the axis functions ran last
    gGaps,           \* allocateGapSpace alone: two gaps, in minutes
    gSpans           \*   the spans it returned for them (<<>> before the calls)

appVars == <<pc, entries, draft, isDraftMode, currentAnchors, pending, last>>
mapVars == <<mEntries, mNow, mAnchors, mT, mPos, mTime, mT2, mPos2, mStage>>
gapVars == <<gGaps, gSpans>>
vars == <<clock, appVars, mapVars, gapVars>>

-----------------------------------------------------------------------------
(* Program constants *)

\* gapMs / 60000  (app.js:63)
MsPerMinute == 60000
MinuteMs == MsPerMinute
HourMs == 60 * MinuteMs

\* app.js:31
MAX_SCROLL_BACK_MS == 12 * 60 * 60 * 1000

\* state.draft.energy: null  (app.js:6); energies proper are 1..10
NullEnergy == 0

-----------------------------------------------------------------------------
(* Double arithmetic on JavaScript numbers *)

\* one limb holds 15 bits of a fraction
Limb == 2^15

\* the number of bits of the natural number i
RECURSIVE BitLen(_)
BitLen(i) == IF i = 0 THEN 0 ELSE 1 + BitLen(i \div 2)

\* canonical form: no zero limb at the end
RECURSIVE Strip(_)
Strip(f) ==
    IF f # <<>> /\ f[Len(f)] = 0 THEN Strip(SubSeq(f, 1, Len(f) - 1)) ELSE f

LimbAt(f, i) == IF i <= Len(f) THEN f[i] ELSE 0

RECURSIVE FracCmp(_, _, _)
FracCmp(f, g, i) ==
    IF i > Len(f) /\ i > Len(g) THEN 0
    ELSE IF LimbAt(f, i) # LimbAt(g, i)
         THEN (IF LimbAt(f, i) < LimbAt(g, i) THEN -1 ELSE 1)
    ELSE FracCmp(f, g, i + 1)

\* -1, 0, 1 as a < b, a = b, a > b
MagCmp(a, b) ==
    IF a.w # b.w THEN (IF a.w < b.w THEN -1 ELSE 1) ELSE FracCmp(a.f, b.f, 1)

RECURSIVE AddLimbs(_, _, _, _, _)
AddLimbs(f, g, i, carry, acc) ==
    IF i = 0 THEN [carry |-> carry, f |-> acc]
    ELSE LET s == LimbAt(f, i) + LimbAt(g, i) + carry
         IN  AddLimbs(f, g, i - 1, s \div Limb, <<s % Limb>> \o acc)

\* a + b, exactly
MagAdd(a, b) ==
    LET n == IF Len(a.f) >= Len(b.f) THEN Len(a.f) ELSE Len(b.f)
        r == AddLimbs(a.f, b.f, n, 0, <<>>)
    IN  [w |-> a.w + b.w + r.carry, f |-> Strip(r.f)]

RECURSIVE SubLimbs(_, _, _, _, _)
SubLimbs(f, g, i, borrow, acc) ==
    IF i = 0 THEN [borrow |-> borrow, f |-> acc]
    ELSE LET s == LimbAt(f, i) - LimbAt(g, i) - borrow
         IN  IF s < 0 THEN SubLimbs(f, g, i - 1, 1, <<s + Limb>> \o acc)
             ELSE SubLimbs(f, g, i - 1, 0, <<s>> \o acc)

\* a - b for a >= b, exactly
MagSub(a, b) ==
    LET n == IF Len(a.f) >= Len(b.f) THEN Len(a.f) ELSE Len(b.f)
        r == SubLimbs(a.f, b.f, n, 0, <<>>)
    IN  [w |-> a.w - b.w - r.borrow, f |-> Strip(r.f)]

RECURSIVE MulLimbs(_, _, _, _, _)
MulLimbs(f, k, i, carry, acc) ==
    IF i = 0 THEN [carry |-> carry, f |-> acc]
    ELSE LET p == f[i] * k + carry
         IN  MulLimbs(f, k, i - 1, p \div Limb, <<p % Limb>> \o acc)

\* a * k for 0 <= k < 2^15
MagMulSmall(a, k) ==
    LET r == MulLimbs(a.f, k, Len(a.f), 0, <<>>)
    IN  [w |-> a.w * k + r.carry, f |-> Strip(r.f)]

\* a * 2^15
MagShift(a) ==
    [w |-> a.w * Limb + LimbAt(a.f, 1),
     f |-> IF a.f = <<>> THEN <<>> ELSE Tail(a.f)]

\* a * k for 0 <= k < 2^30
MagMulInt(a, k) ==
    IF k < Limb THEN MagMulSmall(a, k)
    ELSE MagAdd(MagShift(MagMulSmall(a, k \div Limb)), MagMulSmall(a, k % Limb))

\* bit i (1 = the first after the binary point) of the fraction f
FracBit(f, i) == (LimbAt(f, (i - 1) \div 15 + 1) \div 2^(14 - ((i - 1) % 15))) % 2

\* the first keep bits of the fraction f
TruncFrac(f, keep) ==
    LET full == keep \div 15
        part == keep % 15
        head == [i \in 1..full |-> LimbAt(f, i)]
        cut  == 2^(15 - part)
    IN  IF part = 0 THEN head
        ELSE Append(head, (LimbAt(f, full + 1) \div cut) * cut)

\* is any bit of f from bit i on set
RestNonZero(f, i) ==
    LET j == (i - 1) \div 15 + 1
        part == (i - 1) % 15
    IN  \/ LimbAt(f, j) % 2^(15 - part) # 0
        \/ \E m \in (j + 1)..Len(f) : f[m] # 0

RECURSIVE FirstLimb(_, _)
FirstLimb(f, i) == IF f[i] # 0 THEN i ELSE FirstLimb(f, i + 1)

\* the magnitude m (with sticky: something nonzero was cut off below it)
\* rounded to 53 significant bits, ties to even (a whole number met here is
\* below 2^31 and needs no rounding)
Round53(m, sticky) ==
    IF m.f = <<>> /\ ~sticky THEN m
    ELSE LET keep == IF m.w > 0 THEN 53 - BitLen(m.w)
                     ELSE LET j == FirstLimb(m.f, 1)
                          IN  15 * (j - 1) + (15 - BitLen(m.f[j])) + 53
         IN  IF 15 * Len(m.f) <= keep /\ ~sticky THEN m
             ELSE LET tr == TruncFrac(m.f, keep)
                      rb == FracBit(m.f, keep + 1)
                      st == sticky \/ RestNonZero(m.f, keep + 2)
                      lsb == FracBit(m.f, keep)
                      ulp == [w |-> 0,
                              f |-> [i \in 1..((keep - 1) \div 15 + 1) |->
                                       IF i = (keep - 1) \div 15 + 1
                                       THEN 2^(14 - ((keep - 1) % 15)) ELSE 0]]
                  IN  IF rb = 1 /\ (st \/ lsb = 1)
                      THEN MagAdd([w |-> m.w, f |-> tr], ulp)
                      ELSE [w |-> m.w, f |-> Strip(tr)]

\* 15 quotient bits: (r * 2^15 + dl) divided by k, for r < k < 2^30
RECURSIVE DivBits(_, _, _, _, _)
DivBits(r, dl, k, bit, q) ==
    IF bit < 0 THEN [q |-> q, r |-> r]
    ELSE LET r2 == 2 * r + ((dl \div 2^bit) % 2)
         IN  IF r2 >= k THEN DivBits(r2 - k, dl, k, bit - 1, 2 * q + 1)
             ELSE DivBits(r2, dl, k, bit - 1, 2 * q)

DivLimb(r, dl, k) ==
    IF k < 2 * Limb THEN [q |-> (r * Limb + dl) \div k, r |-> (r * Limb + dl) % k]
    ELSE DivBits(r, dl, k, 14, 0)

\* the limbs of the quotient's fraction: i the next limb of the dividend, r
\* the remainder so far, more the limbs still wanted once the quotient has a
\* nonzero limb (-1: it has none yet)
RECURSIVE DivLimbs(_, _, _, _, _, _)
DivLimbs(f, i, r, k, acc, more) ==
    IF (r = 0 /\ i > Len(f)) \/ more = 0
    THEN [f |-> acc, sticky |-> r # 0 \/ i <= Len(f)]
    ELSE LET d == DivLimb(r, LimbAt(f, i), k)
         IN  DivLimbs(f, i + 1, d.r, k, Append(acc, d.q),
                      IF more > 0 THEN more - 1
                      ELSE IF d.q # 0 THEN 4 ELSE -1)

\* a / k for 0 < k < 2^30, rounded
MagDivInt(a, k) ==
    LET d == DivLimbs(a.f, 1, a.w % k, k, <<>>, IF a.w \div k > 0 THEN 4 ELSE -1)
    IN  Round53([w |-> a.w \div k, f |-> Strip(d.f)], d.sticky)

Abs(i) == IF i < 0 THEN -i ELSE i
Mag(a) == [w |-> a.w, f |-> a.f]
Signed(neg, m) ==
    [nan |-> FALSE, neg |-> neg /\ (m.w # 0 \/ m.f # <<>>), w |-> m.w, f |-> m.f]

\* NaN: what an Invalid Date's getTime() returns, and every operation on it
NaN == [nan |-> TRUE, neg |-> FALSE, w |-> 0, f |-> <<>>]

\* the JavaScript operators on numbers: each is the exact result rounded to
\* the nearest double, or NaN when an operand is NaN; a comparison with NaN
\* is false
NumInt(i) == [nan |-> FALSE, neg |-> i < 0, w |-> Abs(i), f |-> <<>>]
NumNeg(a) == IF a.nan THEN NaN ELSE Signed(~a.neg, Mag(a))
NumAdd(a, b) ==
    IF a.nan \/ b.nan THEN NaN
    ELSE IF a.neg = b.neg THEN Signed(a.neg, Round53(MagAdd(Mag(a), Mag(b)), FALSE))
    ELSE IF MagCmp(Mag(a), Mag(b)) >= 0
         THEN Signed(a.neg, Round53(MagSub(Mag(a), Mag(b)), FALSE))
    ELSE Signed(b.neg, Round53(MagSub(Mag(b), Mag(a)), FALSE))
NumSub(a, b) == NumAdd(a, NumNeg(b))
NumLe(a, b) ==
    /\ ~a.nan
    /\ ~b.nan
    /\ IF a.neg # b.neg THEN a.neg
       ELSE IF a.neg THEN MagCmp(Mag(a), Mag(b)) >= 0
       ELSE MagCmp(Mag(a), Mag(b)) <= 0
NumLt(a, b) == ~a.nan /\ ~b.nan /\ ~NumLe(b, a)
\* Math.min, Math.max
NumMin(a, b) == IF a.nan \/ b.nan THEN NaN ELSE IF NumLe(a, b) THEN a ELSE b
NumMax(a, b) == IF a.nan \/ b.nan THEN NaN ELSE IF NumLe(a, b) THEN b ELSE a
\* x * p and x / q, where p and q are whole numbers (a pixel span, a
\* difference of instants, a constant) or NaN, and q is not 0
NumTimes(x, p) ==
    IF x.nan \/ p.nan THEN NaN
    ELSE Signed(x.neg # p.neg, Round53(MagMulInt(Mag(x), p.w), FALSE))
NumOver(x, q) ==
    IF x.nan \/ q.nan THEN NaN
    ELSE Signed(x.neg # q.neg, MagDivInt(Mag(x), q.w))
\* new Date(x).toISOString(), for x not NaN: the Date constructor drops the
\* fraction of a millisecond (truncation towards zero)
TruncMs(x) == IF x.neg THEN -x.w ELSE x.w

-----------------------------------------------------------------------------
(* The time axis *)

\* A timestamp is a string: ISO digits followed by a zone suffix.  utc is
\* the instant the digits denote read as UTC; the suffixes met are none (the
\* server's own format), 'Z' (toISOString), the offset +01:00 and the offset
\* -05:00.

\* ts + 'Z'
AppendZ(ts) ==
    [ts EXCEPT !.suffix = CASE ts.suffix = "" -> "Z"
                            [] ts.suffix = "Z" -> "ZZ"
                            [] ts.suffix = "+01:00" -> "+01:00Z"
                            [] ts.suffix = "-05:00" -> "-05:00Z"]

\* new Date(string): the instant of a string ending in 'Z' or in an offset;
\* a string with anything behind its offset, or with two 'Z', is no date
\* and gives an Invalid Date, whose getTime() is NaN.  (A string with no
\* suffix never gets here: parseTimestamp appends 'Z' to it.)
NewDate(ts) ==
    [getTime |-> CASE ts.suffix = "Z" -> NumInt(ts.utc)
                   [] ts.suffix = "+01:00" -> NumInt(ts.utc - HourMs)
                   [] ts.suffix = "-05:00" -> NumInt(ts.utc + 5 * HourMs)
                   [] ts.suffix \in {"ZZ", "+01:00Z", "-05:00Z"} -> NaN]

\* 'Z' is appended to every string that neither ends in 'Z' nor includes a
\* '+': a string with a negative offset becomes an Invalid Date
parseTimestamp(ts) ==
    LET endsWithZ == ts.suffix = "Z"
        includesPlus == ts.suffix = "+01:00"
    IN  IF ~endsWithZ /\ ~includesPlus THEN NewDate(AppendZ(ts))
        ELSE NewDate(ts)

entryTimeOf(entry) == parseTimestamp(entry.timestamp).getTime

\* a variant that lets a negative gap move backwards on the axis
allocateGapSpace_NoFloor(gapMinutes) ==
    IF NumLe(gapMinutes, NumInt(0)) THEN TruncMs(gapMinutes)
    ELSE IF NumLe(gapMinutes, NumInt(5)) THEN 110
    ELSE IF NumLe(gapMinutes, NumInt(30)) THEN 145
    ELSE IF NumLe(gapMinutes, NumInt(60)) THEN 180
    ELSE IF NumLe(gapMinutes, NumInt(120)) THEN 220
    ELSE IF NumLe(gapMinutes, NumInt(360)) THEN 280
    ELSE IF NumLe(gapMinutes, NumInt(720)) THEN 350
    ELSE 420

\* the table as documented (no case for gaps <= 0)
allocateGapSpace_Documented(gapMinutes) ==
    IF NumLe(gapMinutes, NumInt(5)) THEN 110
    ELSE IF NumLe(gapMinutes, NumInt(30)) THEN 145
    ELSE IF NumLe(gapMinutes, NumInt(60)) THEN 180
    ELSE IF NumLe(gapMinutes, NumInt(120)) THEN 220
    ELSE IF NumLe(gapMinutes, NumInt(360)) THEN 280
    ELSE IF NumLe(gapMinutes, NumInt(720)) THEN 350
    ELSE 420

\* a variant whose span drops for gaps of 6 to 12 hours
allocateGapSpace_Dip(gapMinutes) ==
    IF NumLe(gapMinutes, NumInt(0)) THEN 0
    ELSE IF NumLe(gapMinutes, NumInt(5)) THEN 110
    ELSE IF NumLe(gapMinutes, NumInt(30)) THEN 145
    ELSE IF NumLe(gapMinutes, NumInt(60)) THEN 180
    ELSE IF NumLe(gapMinutes, NumInt(120)) THEN 220
    ELSE IF NumLe(gapMinutes, NumInt(360)) THEN 280
    ELSE IF NumLe(gapMinutes, NumInt(720)) THEN 250
    ELSE 420

\* a variant comparing with < instead of <=
allocateGapSpace_Strict(gapMinutes) ==
    IF NumLe(gapMinutes, NumInt(0)) THEN 0
    ELSE IF NumLt(gapMinutes, NumInt(5)) THEN 110
    ELSE IF NumLt(gapMinutes, NumInt(30)) THEN 145
    ELSE IF NumLt(gapMinutes, NumInt(60)) THEN 180
    ELSE IF NumLt(gapMinutes, NumInt(120)) THEN 220
    ELSE IF NumLt(gapMinutes, NumInt(360)) THEN 280
    ELSE IF NumLt(gapMinutes, NumInt(720)) THEN 350
    ELSE 420

allocateGapSpace(gapMinutes) ==
    IF NumLe(gapMinutes, NumInt(0)) THEN 0
    ELSE IF NumLe(gapMinutes, NumInt(5)) THEN 110
    ELSE IF NumLe(gapMinutes, NumInt(30)) THEN 145
    ELSE IF NumLe(gapMinutes, NumInt(60)) THEN 180
    ELSE IF NumLe(gapMinutes, NumInt(120)) THEN 220
    ELSE IF NumLe(gapMinutes, NumInt(360)) THEN 280
    ELSE IF NumLe(gapMinutes, NumInt(720)) THEN 350
    ELSE 420

\* a comparator's result as Array.prototype.sort reads it: negative (-1),
\* positive (1), or neither (0, also for NaN)
ComparatorSign(v) ==
    IF NumLt(v, NumInt(0)) THEN -1 ELSE IF NumLt(NumInt(0), v) THEN 1 ELSE 0

\* the comparator of the sort (app.js:51-53), b - a: a comes before b (-1),
\* after b (1), or neither (0); the variant computes a - b
SortCompare_Reversed(a, b) ==
    ComparatorSign(NumSub(entryTimeOf(a), entryTimeOf(b)))

SortCompare(a, b) ==
    ComparatorSign(NumSub(entryTimeOf(b), entryTimeOf(a)))

\* Array.prototype.sort.  On a consistent comparator the result is the one
\* stable order.  The comparator here is not consistent when a time is NaN
\* (the entry is neither before nor after any other), and the order is then
\* the engine's: the steps below are those of V8 (Chrome, Node) on an array
\* of fewer than 64 elements, the run at the start followed by a binary
\* insertion of the rest.

\* the last position of the run that starts the list; idx is the next
\* position to look at
RECURSIVE RunEnd(_, _, _)
RunEnd(list, idx, isDescending) ==
    IF idx > Len(list) THEN idx - 1
    ELSE LET order == SortCompare(list[idx], list[idx - 1])
         IN  IF (isDescending /\ order >= 0) \/ (~isDescending /\ order < 0)
             THEN idx - 1
             ELSE RunEnd(list, idx + 1, isDescending)

Reverse(list) == [i \in 1..Len(list) |-> list[Len(list) + 1 - i]]

\* the run list[1..run], a descending one reversed in place
MakeRun(list, isDescending, run) ==
    [run |-> run,
     list |-> IF isDescending
              THEN Reverse(SubSeq(list, 1, run)) \o SubSeq(list, run + 1, Len(list))
              ELSE list]

\* the run counted from the third element on, its direction being that of
\* the first two
CountRun(list, isDescending) ==
    MakeRun(list, isDescending, RunEnd(list, 3, isDescending))

\* the run found and made (the list has at least two elements)
CountAndMakeRun(list) == CountRun(list, SortCompare(list[2], list[1]) < 0)

\* the number of elements of list[1..right] the pivot goes behind
RECURSIVE InsertionPoint(_, _, _, _)
InsertionPoint(list, pivot, left, right) ==
    IF left >= right THEN left
    ELSE LET mid == left + (right - left) \div 2
         IN  IF SortCompare(pivot, list[mid + 1]) < 0
             THEN InsertionPoint(list, pivot, left, mid)
             ELSE InsertionPoint(list, pivot, mid + 1, right)

\* list[start + 1] moved to stand behind the first `left` elements
MoveTo(list, start, left) ==
    SubSeq(list, 1, left) \o <<list[start + 1]>> \o SubSeq(list, left + 1, start)
        \o SubSeq(list, start + 2, Len(list))

\* list[1..start] is sorted; the elements behind it are inserted one by one
RECURSIVE BinaryInsertionSort(_, _)
BinaryInsertionSort(list, start) ==
    IF start >= Len(list) THEN list
    ELSE BinaryInsertionSort(
             MoveTo(list, start, InsertionPoint(list, list[start + 1], 0, start)),
             start + 1)

\* the insertion of what follows the run
SortFromRun(made) == BinaryInsertionSort(made.list, made.run)

\* [...entries].sort(comparator)
SortNewestFirst(list) ==
    IF Len(list) < 2 THEN list ELSE SortFromRun(CountAndMakeRun(list))

NowAnchor(now) == [time |-> NumInt(now), y |-> 0, isNow |-> TRUE]

\* the body of sorted.forEach (app.js:59-75), over the entries still to come
RECURSIVE PushAnchors(_, _, _)
PushAnchors(anchors, currentY, sorted) ==
    IF sorted = <<>> THEN anchors
    ELSE LET entry == Head(sorted)
             entryTime == entryTimeOf(entry)
             prevAnchor == anchors[Len(anchors)]
             gapMs == NumSub(prevAnchor.time, entryTime)
             gapMinutes == NumOver(gapMs, NumInt(MsPerMinute))
             gapY == allocateGapSpace(gapMinutes)
             nextY == currentY + gapY
         IN  PushAnchors(Append(anchors, [time |-> entryTime, y |-> nextY,
                                          gapFromPrev |-> gapMinutes,
                                          gapY |-> gapY, entry |-> entry]),
                         nextY, Tail(sorted))

buildAnchorMap(list, now) ==
    LET sorted == SortNewestFirst(list)
    IN  PushAnchors(<<NowAnchor(now)>>, 0, sorted)

\* the gaps (upper = anchors[i], lower = anchors[i+1]) holding the time
TimeGaps(time, anchors) ==
    {i \in 1..(Len(anchors) - 1) :
        /\ NumLe(time, anchors[i].time)
        /\ NumLe(anchors[i + 1].time, time)}

FirstOf(S) == CHOOSE i \in S : \A j \in S : i <= j

\* timestamp is a number of ms (possibly fractional)
timeToY_entryCentric(timestamp, anchors) ==
    LET time == timestamp
        found == TimeGaps(time, anchors)
    IN  IF found # {}
        THEN LET upper == anchors[FirstOf(found)]
                 lower == anchors[FirstOf(found) + 1]
                 gapDuration == NumSub(upper.time, lower.time)
                 ratio == NumOver(NumSub(upper.time, time), gapDuration)
             IN  IF gapDuration = NumInt(0) THEN NumInt(upper.y)
                 ELSE NumAdd(NumInt(upper.y), NumTimes(ratio, NumInt(lower.gapY)))
        ELSE IF Len(anchors) > 0
        THEN LET oldest == anchors[Len(anchors)]
                 extraMs == NumSub(oldest.time, time)
                 extraMinutes == NumOver(extraMs, NumInt(MsPerMinute))
             IN  NumAdd(NumInt(oldest.y), NumInt(allocateGapSpace(extraMinutes)))
        ELSE NumInt(0)

\* the gaps holding the position y
PositionGaps(y, anchors) ==
    {i \in 1..(Len(anchors) - 1) :
        /\ NumLe(NumInt(anchors[i].y), y)
        /\ NumLe(y, NumInt(anchors[i + 1].y))}

\* the fallback of yToTime_entryCentric, app.js:138
DateNow == clock

\* the position-to-minutes ratio of the extrapolation, app.js:133
MaxGapSpan == 420
MaxGapMinutes == 720

yToTime_entryCentric(y, anchors) ==
    LET found == PositionGaps(y, anchors)
    IN  IF found # {}
        THEN LET upper == anchors[FirstOf(found)]
                 lower == anchors[FirstOf(found) + 1]
                 yWithinGap == NumSub(y, NumInt(upper.y))
                 gapDuration == NumSub(upper.time, lower.time)
                 ratio == IF lower.gapY > 0
                          THEN NumOver(yWithinGap, NumInt(lower.gapY))
                          ELSE NumInt(0)
             IN  NumSub(upper.time, NumTimes(ratio, gapDuration))
        ELSE IF Len(anchors) > 0 /\ NumLt(NumInt(anchors[Len(anchors)].y), y)
        THEN LET oldest == anchors[Len(anchors)]
                 extraY == NumSub(y, NumInt(oldest.y))
                 extraMinutes == NumTimes(NumOver(extraY, NumInt(MaxGapSpan)),
                                          NumInt(MaxGapMinutes))
             IN  NumSub(oldest.time, NumTimes(extraMinutes, NumInt(MsPerMinute)))
        ELSE NumInt(DateNow)

-----------------------------------------------------------------------------
(* The page: state, handlers, boundary calls *)

\* Bounds of the model
MaxTicks == 1        \* clock steps
MaxEntries == 2      \* entries with a readable timestamp, held or being created

ClockStart == 14 * HourMs
TickMs == 13 * HourMs
FetchTimes == {ClockStart - 5 * MinuteMs, ClockStart + 10 * MinuteMs}
TextValues == {"", "a"}
EnergyValues == {5}
\* the scroll positions tried: below the bottom; at each anchor of the map
\* (0 is the now anchor); halfway up the newest gap, on maps of MaxEntries
\* or more entries; and one beyond the oldest anchor: by 217 px on the
\* map of the empty list, less than 12 hours back and not a whole number of
\* ms ((217 / 420) * 720 * 60000 is rounded); by 1 px when the oldest anchor
\* is later than the map's now, a time later than now; by 1000 px otherwise,
\* more than 12 hours back
BeyondOldest(anchors) ==
    IF Len(anchors) = 1 THEN 217
    ELSE IF NumLt(anchors[1].time, anchors[Len(anchors)].time) THEN 1
    ELSE 1000

ScrollOffsets(anchors) ==
    {-50} \cup {anchors[i].y : i \in 1..Len(anchors)}
        \cup (IF Len(anchors) > MaxEntries THEN {anchors[2].y \div 2} ELSE {})
        \cup {anchors[Len(anchors)].y + BeyondOldest(anchors)}

SeqsUpTo(S, n) == UNION {[1..k -> S] : k \in 0..n}

\* An Entry as the server sends it.  Of its fields (id, timestamp,
\* description, energy) the model keeps the timestamp, the one the axis
\* reads; the others are only displayed.
ServerEntry(t) == [timestamp |-> [utc |-> t, suffix |-> ""]]

\* an entry whose timestamp carries a negative offset
OffsetEntry(t) == [timestamp |-> [utc |-> t, suffix |-> "-05:00"]]

\* the entries of the list whose timestamp parseTimestamp can read
Readable(list) == {i \in 1..Len(list) : ~entryTimeOf(list[i]).nan}

FetchLists ==
    {<<>>} \cup {<<ServerEntry(t)>> : t \in FetchTimes}
        \cup {<<OffsetEntry(ClockStart - HourMs), ServerEntry(ClockStart - 5 * MinuteMs)>>}

RemoveAt(s, i) == SubSeq(s, 1, i - 1) \o SubSeq(s, i + 1, Len(s))

\* renderTimeline, as far as it writes program state: the new currentAnchors
\* (now is its Date.now())
renderTimeline(list, now) ==
    IF Len(list) = 0 THEN <<[time |-> NumInt(now), y |-> 0, isNow |-> TRUE]>>
    ELSE buildAnchorMap(list, now)

\* the draft exitDraftMode installs
ResetDraft_KeepTimestamp(now, old) ==
    [text |-> "", energy |-> NullEnergy, timestamp |-> old.timestamp]

ResetDraft(now, old) ==
    [text |-> "", energy |-> NullEnergy, timestamp |-> NumInt(now)]

ClampMsBack(msBack) ==
    NumMin(NumMax(NumInt(0), msBack), NumInt(MAX_SCROLL_BACK_MS))

\* enterDraftMode: the new state.isDraftMode; the variant leaves it as it is
enterDraftMode_Noop(mode) == mode

enterDraftMode(mode) == IF ~mode THEN TRUE ELSE mode

\* updateTimestampFromScroll: the new state.draft.timestamp
updateTimestampFromScroll(scrollFromBottom, anchors, now) ==
    LET targetTime == yToTime_entryCentric(scrollFromBottom, anchors)
        msBack == NumSub(NumInt(now), targetTime)
        clampedMs == ClampMsBack(msBack)
    IN  NumSub(NumInt(now), clampedMs)

\* state.draft after the scroll listener ran (app.js:459-462); the variant
\* runs updateTimestampFromScroll whatever the mode
DraftAfterScroll_Unguarded(mode, d, scrollFromBottom, anchors, now) ==
    [d EXCEPT !.timestamp = updateTimestampFromScroll(scrollFromBottom, anchors, now)]

DraftAfterScroll(mode, d, scrollFromBottom, anchors, now) ==
    IF mode
    THEN [d EXCEPT !.timestamp = updateTimestampFromScroll(scrollFromBottom, anchors, now)]
    ELSE d

\* the request body saveEntry builds from the draft; its timestamp is
\* new Date(timestamp).toISOString(), an instant in whole ms ending in 'Z'.
\* (The body also carries description and energy, which the model does not
\* follow through the server.)
EntryOfDraft(d) ==
    [timestamp |-> [utc |-> TruncMs(d.timestamp), suffix |-> "Z"]]

\* the Entry a successful POST answers with: the submitted fields, the
\* timestamp in the server's own format
createEntry(request) == ServerEntry(request.timestamp.utc)

\* state.entries, state.draft and state.isDraftMode after the response to a
\* createEntry call (ok: res.ok and a readable body)
EntriesAfterSave(ok, newEntry, list) ==
    IF ok THEN <<newEntry>> \o list ELSE list

DraftAfterSave_Always(ok, d, now) == ResetDraft(now, d)

DraftAfterSave(ok, d, now) == IF ok THEN ResetDraft(now, d) ELSE d

Init ==
    /\ clock = ClockStart
    /\ pc = "loading"
    /\ entries = <<>>
    /\ draft = [text |-> "", energy |-> NullEnergy, timestamp |-> NumInt(clock)]
    /\ isDraftMode = FALSE
    /\ currentAnchors = <<>>
    /\ pending = <<>>
    /\ last = "load"
    /\ mEntries = <<>>
    /\ mNow = 0
    /\ mAnchors = <<>>
    /\ mT = NumInt(0)
    /\ mPos = NumInt(0)
    /\ mTime = NumInt(0)
    /\ mT2 = NumInt(0)
    /\ mPos2 = NumInt(0)
    /\ mStage = "off"
    /\ gGaps = <<NumInt(0), NumInt(0)>>
    /\ gSpans = <<>>

\* time passes
Tick ==
    /\ clock < ClockStart + MaxTicks * TickMs
    /\ clock' = clock + TickMs
    /\ last' = "other"
    /\ UNCHANGED <<pc, entries, draft, isDraftMode, currentAnchors, pending, mapVars, gapVars>>

\* init(): fetchEntries got an ok response; then renderTimeline and
\* setupEventListeners
FetchOk ==
    /\ pc = "loading"
    /\ \E list \in FetchLists :
          /\ entries' = list
          /\ currentAnchors' = renderTimeline(list, clock)
    /\ pc' = "ready"
    /\ last' = "fetchOk"
    /\ UNCHANGED <<clock, draft, isDraftMode, pending, mapVars, gapVars>>

\* init(): fetchEntries got a non-ok response or threw
FetchFail ==
    /\ pc = "loading"
    /\ currentAnchors' = renderTimeline(entries, clock)
    /\ pc' = "ready"
    /\ last' = "fetchFail"
    /\ UNCHANGED <<clock, entries, draft, isDraftMode, pending, mapVars, gapVars>>

\* the input listener of the description field
Input ==
    /\ pc = "ready"
    /\ \E v \in TextValues :
          /\ draft' = [draft EXCEPT !.text = v]
          /\ isDraftMode' = IF v # "" THEN enterDraftMode(isDraftMode)
                             ELSE isDraftMode
    /\ currentAnchors' = renderTimeline(entries, clock)
    /\ last' = "other"
    /\ UNCHANGED <<clock, pc, entries, pending, mapVars, gapVars>>

\* setEnergy (from the energy drag), with its enterDraftMode
SetEnergy ==
    /\ pc = "ready"
    /\ \E v \in EnergyValues : draft' = [draft EXCEPT !.energy = v]
    /\ isDraftMode' = enterDraftMode(isDraftMode)
    /\ currentAnchors' = IF ~isDraftMode THEN renderTimeline(entries, clock)
                         ELSE currentAnchors
    /\ last' = "other"
    /\ UNCHANGED <<clock, pc, entries, pending, mapVars, gapVars>>

\* the scroll listener; what it writes back to timeline.scrollTop stays in
\* the DOM
Scroll ==
    /\ pc = "ready"
    /\ \E y \in ScrollOffsets(currentAnchors) :
          draft' = DraftAfterScroll(isDraftMode, draft, NumInt(y), currentAnchors,
                                    clock)
    /\ last' = "scroll"
    /\ UNCHANGED <<clock, pc, entries, isDraftMode, currentAnchors, pending,
                   mapVars, gapVars>>

\* saveEntry up to its await: the request leaves, unless the draft's
\* timestamp is NaN: then toISOString throws a RangeError before the try
\* block and nothing is sent
SaveEntry ==
    /\ pc = "ready"
    /\ ~(draft.text = "" /\ draft.energy = NullEnergy)
    /\ Cardinality(Readable(entries)) + Len(pending) < MaxEntries
    /\ pending' = IF draft.timestamp.nan THEN pending
                  ELSE Append(pending, EntryOfDraft(draft))
    /\ last' = IF draft.timestamp.nan THEN "other" ELSE "save"
    /\ UNCHANGED <<clock, pc, entries, draft, isDraftMode, currentAnchors,
                   mapVars, gapVars>>

\* saveEntry after its await, the response being ok or not
SaveResponse(ok) ==
    /\ pending # <<>>
    /\ \E i \in 1..Len(pending) :
          /\ entries' = EntriesAfterSave(ok, createEntry(pending[i]), entries)
          /\ pending' = RemoveAt(pending, i)
    /\ draft' = DraftAfterSave(ok, draft, clock)
    /\ isDraftMode' = IF ok THEN FALSE ELSE isDraftMode
    /\ currentAnchors' = IF ok THEN renderTimeline(entries', clock) ELSE currentAnchors
    /\ last' = IF ok THEN "saveOk" ELSE "saveFail"
    /\ UNCHANGED <<clock, pc, mapVars, gapVars>>

SaveOk == SaveResponse(TRUE)

SaveFail == SaveResponse(FALSE)

\* exitDraftMode, from the exit-draft button
ExitDraft ==
    /\ pc = "ready"
    /\ isDraftMode' = FALSE
    /\ draft' = ResetDraft(clock, draft)
    /\ currentAnchors' = renderTimeline(entries, clock)
    /\ last' = "exit"
    /\ UNCHANGED <<clock, pc, entries, pending, mapVars, gapVars>>

\* the resize listener
Resize ==
    /\ pc = "ready"
    /\ currentAnchors' = renderTimeline(entries, clock)
    /\ last' = "other"
    /\ UNCHANGED <<clock, pc, entries, draft, isDraftMode, pending, mapVars, gapVars>>

Next ==
    \/ Tick
    \/ FetchOk
    \/ FetchFail
    \/ Input
    \/ SetEnergy
    \/ Scroll
    \/ SaveEntry
    \/ SaveOk
    \/ SaveFail
    \/ ExitDraft
    \/ Resize

Spec == Init /\ [][Next]_vars

-----------------------------------------------------------------------------
(* The axis functions on their own: buildAnchorMap on a drawn entry list and *)
(* now, then timeToY_entryCentric and yToTime_entryCentric on the map, with   *)
(* the clock (read by yToTime's fallback) at or after that now                *)

MaxMapEntries == 3   \* bound: entries in the list given to buildAnchorMap

MapNows == {ClockStart, ClockStart + 5 * MinuteMs}
MapEntryTimes ==
    {ClockStart - 13 * HourMs, ClockStart - 3 * HourMs, ClockStart - 40 * MinuteMs,
     ClockStart - 5 * MinuteMs, ClockStart, ClockStart + 10 * MinuteMs}
MapQueryTimes ==
    MapEntryTimes \cup {ClockStart - 14 * HourMs, ClockStart - 20 * MinuteMs,
                        ClockStart + 5 * MinuteMs, ClockStart + HourMs}
MapOffsets == {-50, 0, 55, 110, 217, 400, 2000}

\* entries in the server's format, one with a positive offset (the instant
\* 20 minutes before ClockStart) and one with a negative offset
MapEntries ==
    {ServerEntry(t) : t \in MapEntryTimes}
        \cup {[timestamp |-> [utc |-> ClockStart + 40 * MinuteMs, suffix |-> "+01:00"]],
              OffsetEntry(ClockStart - HourMs)}

MapLists == SeqsUpTo(MapEntries, MaxMapEntries)

InitMap ==
    /\ mNow \in MapNows
    /\ clock \in {mNow, mNow + TickMs}
    /\ mEntries \in MapLists
    /\ mAnchors = <<>>
    /\ mT = NumInt(0)
    /\ mPos = NumInt(0)
    /\ mTime = NumInt(0)
    /\ mT2 = NumInt(0)
    /\ mPos2 = NumInt(0)
    /\ mStage = "input"
    /\ gGaps = <<NumInt(0), NumInt(0)>>
    /\ gSpans = <<>>
    /\ pc = "loading"
    /\ entries = <<>>
    /\ draft = [text |-> "", energy |-> NullEnergy, timestamp |-> NumInt(clock)]
    /\ isDraftMode = FALSE
    /\ currentAnchors = <<>>
    /\ pending = <<>>
    /\ last = "load"

MapBuild ==
    /\ mStage = "input"
    /\ mAnchors' = buildAnchorMap(mEntries, mNow)
    /\ mStage' = "built"
    /\ UNCHANGED <<clock, appVars, gapVars, mT2, mPos2, mEntries, mNow, mT, mPos, mTime>>

MapForward ==
    /\ mStage = "built"
    /\ \E t \in MapQueryTimes \cup {mNow - MAX_SCROLL_BACK_MS} :
          /\ mT' = NumInt(t)
          /\ mPos' = timeToY_entryCentric(NumInt(t), mAnchors)
    /\ mStage' = "forward"
    /\ UNCHANGED <<clock, appVars, gapVars, mT2, mPos2, mEntries, mNow, mAnchors, mTime>>

\* the inverse applied to the position the forward mapping returned
MapBack ==
    /\ mStage = "forward"
    /\ mTime' = yToTime_entryCentric(mPos, mAnchors)
    /\ mStage' = "roundtrip"
    /\ UNCHANGED <<clock, appVars, gapVars, mT2, mPos2, mEntries, mNow, mAnchors, mT, mPos>>

MapInverse ==
    /\ mStage = "built"
    /\ \E y \in MapOffsets :
          /\ mPos' = NumInt(y)
          /\ mTime' = yToTime_entryCentric(NumInt(y), mAnchors)
    /\ mStage' = "inverse"
    /\ UNCHANGED <<clock, appVars, gapVars, mT2, mPos2, mEntries, mNow, mAnchors, mT>>

\* a second forward query, at or beyond the oldest anchor: one millisecond
\* older than the first, or any older query time
MapForwardBeyond ==
    /\ mStage = "forward"
    /\ NumLe(mT, mAnchors[Len(mAnchors)].time)
    /\ \E t \in {TruncMs(mT) - 1} \cup {q \in MapQueryTimes : NumLe(NumInt(q), mT)} :
          /\ mT2' = NumInt(t)
          /\ mPos2' = timeToY_entryCentric(NumInt(t), mAnchors)
    /\ mStage' = "beyond"
    /\ UNCHANGED <<clock, appVars, gapVars, mEntries, mNow, mAnchors, mT, mPos, mTime>>

NextMap ==
    \/ MapBuild
    \/ MapForward
    \/ MapBack
    \/ MapInverse
    \/ MapForwardBeyond

SpecMap == InitMap /\ [][NextMap]_vars

-----------------------------------------------------------------------------
(* allocateGapSpace on its own: two gaps are drawn, in ms as buildAnchorMap  *)
(* and timeToY_entryCentric compute them, and divided by 60000              *)

GapMsValues ==
    {-10 * MinuteMs, -1, 0, 1, 5 * MinuteMs, 5 * MinuteMs + 1,
     30 * MinuteMs, 30 * MinuteMs + 1, 60 * MinuteMs, 60 * MinuteMs + 1,
     120 * MinuteMs, 120 * MinuteMs + 1, 360 * MinuteMs, 360 * MinuteMs + 1,
     720 * MinuteMs, 720 * MinuteMs + 1, 1000 * MinuteMs}

InitGap ==
    /\ \E ms1, ms2 \in GapMsValues :
          gGaps = <<NumOver(NumInt(ms1), NumInt(MsPerMinute)),
                    NumOver(NumInt(ms2), NumInt(MsPerMinute))>>
    /\ gSpans = <<>>
    /\ clock = ClockStart
    /\ pc = "loading"
    /\ entries = <<>>
    /\ draft = [text |-> "", energy |-> NullEnergy, timestamp |-> NumInt(clock)]
    /\ isDraftMode = FALSE
    /\ currentAnchors = <<>>
    /\ pending = <<>>
    /\ last = "load"
    /\ mEntries = <<>>
    /\ mNow = 0
    /\ mAnchors = <<>>
    /\ mT = NumInt(0)
    /\ mPos = NumInt(0)
    /\ mTime = NumInt(0)
    /\ mT2 = NumInt(0)
    /\ mPos2 = NumInt(0)
    /\ mStage = "off"

AllocateGaps ==
    /\ gSpans = <<>>
    /\ gSpans' = <<allocateGapSpace(gGaps[1]), allocateGapSpace(gGaps[2])>>
    /\ UNCHANGED <<clock, appVars, mapVars, gGaps>>

NextGap == AllocateGaps

SpecGap == InitGap /\ [][NextGap]_vars

-----------------------------------------------------------------------------
(* Properties *)

\* now - 12h <= t <= now
InWindow(t, now) ==
    /\ NumLe(NumInt(now - MAX_SCROLL_BACK_MS), t)
    /\ NumLe(t, NumInt(now))

OldestOf(anchors) == anchors[Len(anchors)]

\* a and b differ by no more than a millisecond, the resolution of a
\* timestamp
WithinRounding(a, b) ==
    /\ NumLe(NumSub(a, b), NumInt(1))
    /\ NumLe(NumSub(b, a), NumInt(1))

\* C1: right after the scroll listener has run while a draft is being
\* composed, the draft's timestamp lies in [now - 12h, now], now being the
\* clock that handler read (a scroll step leaves the clock as it is).
C1_ScrollClamped ==
    (last = "scroll" /\ isDraftMode) => InWindow(draft.timestamp, clock)

\* C2: whatever the events before it, the timestamp saveEntry submits lies
\* in [clock - 12h, clock] when it is submitted (the claim's "in particular";
\* the claim states the same bound for the draft's timestamp in every state).
C2_SubmittedInWindow ==
    [][(SaveEntry /\ last' = "save") =>
          InWindow(NumInt(pending'[Len(pending')].timestamp.utc), clock')]_vars

\* C3: on a map built by buildAnchorMap, a timestamp between the oldest
\* anchor's time and now that is mapped to a position and back comes out
\* unchanged, up to rounding.
C3_RoundTrip ==
    (/\ mStage = "roundtrip"
     /\ NumLe(OldestOf(mAnchors).time, mT)
     /\ NumLe(mT, NumInt(mNow)))
    => WithinRounding(mTime, mT)

\* C4: the map buildAnchorMap returns starts with the now anchor at position
\* 0, and no anchor lies at a smaller position than the anchor before it.
C4_PositionsMonotone ==
    mStage # "input" =>
        /\ mAnchors[1] = [time |-> NumInt(mNow), y |-> 0, isNow |-> TRUE]
        /\ \A i \in 2..Len(mAnchors) : mAnchors[i].y >= mAnchors[i - 1].y

\* a list given out of order, with an entry later than now and two entries
\* sharing a timestamp
C4_Witness ==
    /\ mStage = "built"
    /\ Len(mAnchors) = 4
    /\ NumLt(entryTimeOf(mEntries[1]), entryTimeOf(mEntries[3]))
    /\ NumLt(NumInt(mNow), mAnchors[2].time)
    /\ ~mAnchors[3].time.nan
    /\ mAnchors[3].time = mAnchors[4].time
    /\ mAnchors[4].y > 0

TimesStrictlyDecreasing(anchors) ==
    \A i \in 2..Len(anchors) : NumLt(anchors[i].time, anchors[i - 1].time)

C6_EmptyInverseIsMapNow ==
    (mStage = "inverse" /\ Len(mAnchors) = 1 /\ mPos = NumInt(0))
    => mTime = NumInt(mNow)

\* C7: from the empty list buildAnchorMap returns the now anchor alone, at
\* position 0 with time now; renderTimeline installs the same map for an
\* empty state.entries; and the forward mapping sends now to 0 on it.
C7_EmptyStateForward ==
    (mEntries = <<>> /\ mStage # "input") =>
        /\ mAnchors = <<[time |-> NumInt(mNow), y |-> 0, isNow |-> TRUE]>>
        /\ renderTimeline(mEntries, mNow) = mAnchors
        /\ (mStage = "forward" /\ mT = NumInt(mNow)) => mPos = NumInt(0)

C7_Witness ==
    /\ mEntries = <<>>
    /\ mStage = "forward"
    /\ mT = NumInt(mNow)
    /\ mPos = NumInt(0)
    /\ Len(mAnchors) = 1

\* C8: a save whose createEntry call succeeded and a discard both leave the
\* page idle with the draft's text empty, its energy null and its timestamp
\* the clock of that moment; the discard leaves state.entries as it was.
C8_ResetAfterCommitOrDiscard ==
    [][/\ (SaveOk \/ ExitDraft) =>
             /\ ~isDraftMode'
             /\ draft' = [text |-> "", energy |-> NullEnergy,
                          timestamp |-> NumInt(clock')]
       /\ ExitDraft => entries' = entries]_vars

\* a save has succeeded after the clock moved on from the page load
C8_Witness ==
    /\ last = "saveOk"
    /\ clock > ClockStart
    /\ ~isDraftMode
    /\ draft.timestamp = NumInt(clock)
    /\ Len(entries) = 2

\* C9: a failed createEntry call leaves the draft, isDraftMode and
\* state.entries as they were; a failed fetchEntries leaves state.entries at
\* its last-known value and the page renders on it.
C9_FailureLeavesState ==
    [][/\ SaveFail => UNCHANGED <<draft, isDraftMode, entries>>
       /\ FetchFail =>
             /\ entries' = entries
             /\ pc' = "ready"
             /\ currentAnchors' = renderTimeline(entries, clock)]_vars

\* a createEntry call has failed while a backdated draft was being composed;
\* the draft is still there to be saved again
C9_Witness ==
    /\ last = "saveFail"
    /\ isDraftMode
    /\ draft.text = "a"
    /\ draft.timestamp # NumInt(clock)
    /\ pending = <<>>

\* C10: when a save has succeeded, state.entries is the returned entry
\* followed by the previous list, currentAnchors is the map of that list,
\* and the new entry has its anchor at its time-sorted
\* place: no entry anchor before it is earlier, none after it is later
\* (anchors whose time is NaN have no place in time and are passed over).
C10_PrependedThenRebuilt ==
    [][SaveOk =>
          /\ \E i \in 1..Len(pending) :
                entries' = <<createEntry(pending[i])>> \o entries
          /\ currentAnchors' = buildAnchorMap(entries', clock')
          /\ \E k \in 2..Len(currentAnchors') :
                /\ currentAnchors'[k].entry = entries'[1]
                /\ \A j \in 2..Len(currentAnchors') :
                      ~currentAnchors'[j].time.nan =>
                         /\ j < k => NumLe(currentAnchors'[k].time,
                                           currentAnchors'[j].time)
                         /\ j > k => NumLe(currentAnchors'[j].time,
                                           currentAnchors'[k].time)]_vars

\* C11: beyond the oldest anchor the forward mapping never decreases as the
\* timestamp gets older, and from the oldest anchor's time to one millisecond
\* before it the position moves by no more than one position unit.
C11_ContinuousAndMonotoneBeyond ==
    mStage = "beyond" =>
        /\ NumLe(mPos, mPos2)
        /\ (mT = OldestOf(mAnchors).time /\ mT2 = NumInt(TruncMs(mT) - 1))
           => NumLe(NumSub(mPos2, mPos), NumInt(1))

\* C12: a timestamp later than the now anchor's time is mapped to a negative
\* position.
C12_FutureIsNegative ==
    (mStage = "forward" /\ NumLt(mAnchors[1].time, mT))
    => NumLt(mPos, NumInt(0))

RECURSIVE SumGapY(_, _)
SumGapY(anchors, i) ==
    IF i <= 1 THEN 0 ELSE SumGapY(anchors, i - 1) + anchors[i].gapY

\* C15: when no entry is later than now, each anchor's position is the sum
\* of the gap spans up to it, the forward mapping sends each anchor's time to
\* that anchor's position, and position 0 maps back to now.
C15_EntryAtItsAnchor ==
    (mStage # "input"
     /\ \A i \in 1..Len(mEntries) : NumLe(entryTimeOf(mEntries[i]), NumInt(mNow)))
    => /\ \A i \in 1..Len(mAnchors) : mAnchors[i].y = SumGapY(mAnchors, i)
       /\ mStage = "forward" =>
             \A i \in 1..Len(mAnchors) :
                mT = mAnchors[i].time => mPos = NumInt(mAnchors[i].y)
       /\ (mStage = "inverse" /\ mPos = NumInt(0)) => mTime = NumInt(mNow)

\* C19: the position of now - 12h, the scroll limit of draft mode, maps back
\* to now - 12h, up to rounding.
C19_LimitReachesTwelveHours ==
    (mStage = "roundtrip" /\ mT = NumInt(mNow - MAX_SCROLL_BACK_MS))
    => WithinRounding(mTime, NumInt(mNow - MAX_SCROLL_BACK_MS))

\* C13: of two gaps, the one that is not longer never gets the larger span.
C13_GapMonotone ==
    (gSpans # <<>> /\ NumLe(gGaps[1], gGaps[2])) => gSpans[1] <= gSpans[2]

\* a gap of 5 minutes against one a millisecond longer, across a threshold
C13_Witness ==
    /\ gSpans = <<110, 145>>
    /\ gGaps[1] = NumInt(5)
    /\ NumLt(gGaps[1], gGaps[2])
    /\ NumLt(gGaps[2], NumInt(6))

\* C14 as claimed: for every gap from 0 upwards allocateGapSpace returns the
\* span of the documented table (110 up to 5 minutes, 0 included).
C14_DocumentedTable ==
    (gSpans # <<>> /\ NumLe(NumInt(0), gGaps[1]))
    => gSpans[1] = allocateGapSpace_Documented(gGaps[1])

\* C14 as amended: for every gap above 0 allocateGapSpace returns the span of
\* the documented table, and for a gap of 0 or less it returns 0.
C14_TableAboveZero ==
    gSpans # <<>> =>
        gSpans[1] = IF NumLt(NumInt(0), gGaps[1])
                    THEN allocateGapSpace_Documented(gGaps[1])
                    ELSE 0

\* a gap of 0 and a gap of exactly 5 minutes
C14_Witness ==
    /\ gSpans = <<0, 110>>
    /\ gGaps[1] = NumInt(0)
    /\ gGaps[2] = NumInt(5)

\* C16: in a scroll handling step of draft mode, the now that clamps the
\* draft timestamp and gives the 12-hour scroll limit is the time of the
\* first anchor of the currentAnchors the step queries (a scroll step leaves
\* the clock and currentAnchors as they are).
C16_ScrollNowIsMapNow ==
    (last = "scroll" /\ isDraftMode) => currentAnchors[1].time = NumInt(clock)

\* C17: a draft with text or with an energy is in draft mode; a step in
\* which text or an energy is entered ends in draft mode; and draft mode ends
\* only in a step that runs exitDraftMode (recorded in last as "saveOk", a
\* successful save, or "exit", the exit-draft button).
C17_ComposingEnteredAndLeft ==
    /\ [](draft.text # "" \/ draft.energy # NullEnergy => isDraftMode)
    /\ [][/\ (draft'.text # draft.text /\ draft'.text # "") => isDraftMode'
          /\ (draft'.energy # draft.energy /\ draft'.energy # NullEnergy)
             => isDraftMode'
          /\ (isDraftMode /\ ~isDraftMode') => last' \in {"saveOk", "exit"}]_vars

\* draft mode entered by an energy alone, and still on after a failed save
C17_Witness ==
    /\ isDraftMode
    /\ draft.energy # NullEnergy
    /\ draft.text = ""
    /\ last = "saveFail"

\* C18: a scroll while idle leaves the draft as it is; text and energy
\* events leave draft.timestamp as it is; a scroll in draft mode leaves text,
\* energy, entries and isDraftMode as they are; and draft.timestamp changes
\* only in a scroll step of draft mode or a step that runs exitDraftMode.
\* (The steps are told by the handler they record in last: "scroll" is the
\* scroll listener, "other" covers the input listener and setEnergy,
\* "saveOk" and "exit" are the steps that run exitDraftMode.)
C18_TimestampFrame ==
    [][/\ (last' = "scroll" /\ ~isDraftMode) => draft' = draft
       /\ last' = "other" => draft'.timestamp = draft.timestamp
       /\ (last' = "scroll" /\ isDraftMode) =>
             /\ draft'.text = draft.text
             /\ draft'.energy = draft.energy
             /\ UNCHANGED <<entries, isDraftMode>>
       /\ draft'.timestamp # draft.timestamp =>
             \/ last' = "scroll" /\ isDraftMode
             \/ last' \in {"saveOk", "exit"}]_vars

\* a scroll in draft mode has moved the timestamp of a draft with text and
\* energy
C18_Witness ==
    /\ last = "scroll"
    /\ isDraftMode
    /\ draft.text = "a"
    /\ draft.energy # NullEnergy
    /\ NumLt(draft.timestamp, NumInt(clock))
    /\ Len(entries) = 1

\* C20: saveEntry issues no request when it ran last and nothing happened
\* since (the draft is the one just submitted and its createEntry call has
\* not resolved).
C20_SavedAtMostOnce ==
    [][SaveEntry => last # "save"]_vars

\* C21: when a createEntry call succeeds while a draft is being composed
\* that is no longer the one the call submitted (its request would differ),
\* the step leaves that draft and draft mode as they are.
C21_ResponseKeepsNewerDraft ==
    [][\A i \in 1..Len(pending) :
          (/\ last' = "saveOk"
           /\ pending' = RemoveAt(pending, i)
           /\ isDraftMode
           /\ pending[i] # EntryOfDraft(draft))
          => (draft' = draft /\ isDraftMode')]_vars

=============================================================================
